---------------------------- MODULE Spec2Model ----------------------------
(***************************************************************************)
(* A model of the Marco Mode plugin (src/main.ts): an inbox folder of      *)
(* notes in a host vault, the commands that cycle, mark, snooze, create,   *)
(* import, move and merge notes, the startup auto-check, and the relative  *)
(* date parser of the date suggestion modal.                               *)
(*                                                                         *)
(* Text (paths, names, contents, dates, notices) is modelled by TLA+       *)
(* strings, on which Len, \o and SubSeq act as on character sequences.     *)
(* An instant is a number of seconds since 1970-01-01T00:00:00Z; the       *)
(* zone is a fixed offset in minutes east of UTC.                          *)
(***************************************************************************)
EXTENDS Integers, Sequences, FiniteSets, TLC

VARIABLES
    vault,      \* the host file store: path |-> content, for the notes that exist
    active,     \* workspace.getActiveFile(): a path, or NoFile
    settings,   \* this.settings (in memory)
    saved,      \* the persisted settings data (loadData / saveData)
    now,        \* the current instant, in seconds since the epoch
    tz,         \* the local zone's offset from UTC, in minutes
    wf,         \* the workflow invocations: position, locals, notices, outcome
    prompt,     \* TRUE while an ImportConfirmModal is open
    checked,    \* TRUE once this session's startup timer has fired
    ops,        \* number of workflow invocations that may still be started
    session,    \* number of the current session (plugin loads so far)
    cancelled   \* the session and date of the last cancelled import prompt

vars == <<vault, active, settings, saved, now, tz, wf, prompt, checked, ops,
          session, cancelled>>

----------------------------------------------------------------------------
(* Bounds of the model. *)

\* Workflow invocations started in one behaviour of each specification.
MaxOps == 1
InboxOps == 2
MergeOps == 1
DailyOps == 1

\* Callbacks started in one behaviour of the settings and file menu specification.
MenuOps == 2

\* Invocations of the move in one behaviour of the interleaving specification.
MoveOps == 2

\* Clicks of the merge button that leave the modal open, in one invocation.
MaxClicks == 2

\* Advances of the clock in one behaviour.
MaxTicks == 1

\* Sessions (loads of the plugin) in one behaviour.
MaxSessions == 2

\* Notes initially in the vault's inbox.
MaxInbox == 3

\* Days after the first instant on which a phrase is parsed.
MaxDays == 6

----------------------------------------------------------------------------
(* Text. *)

NoFile == "<none>"

CharAt(s, i) == SubSeq(s, i, i)

StartsWith(s, p) == Len(s) >= Len(p) /\ SubSeq(s, 1, Len(p)) = p

\* The characters String.prototype.trim removes, among those the model uses.
IsSpace(c) == c \in {" ", "\n", "\t", "\r"}

RECURSIVE TrimStart(_)
TrimStart(s) ==
    IF Len(s) > 0 /\ IsSpace(CharAt(s, 1)) THEN TrimStart(SubSeq(s, 2, Len(s))) ELSE s

RECURSIVE TrimEnd(_)
TrimEnd(s) ==
    IF Len(s) > 0 /\ IsSpace(CharAt(s, Len(s))) THEN TrimEnd(SubSeq(s, 1, Len(s) - 1)) ELSE s

Trim(s) == TrimEnd(TrimStart(s))

\* The index of the last "/" of a path, 0 when there is none.
RECURSIVE LastSlash(_, _)
LastSlash(path, i) ==
    IF i = 0 THEN 0
    ELSE IF CharAt(path, i) = "/" THEN i
    ELSE LastSlash(path, i - 1)

\* TFile.name: the last segment of the path.
FileName(path) == SubSeq(path, LastSlash(path, Len(path)) + 1, Len(path))

\* TFile.parent.path: the path of the folder holding the file ("/" for the root).
ParentPath(path) ==
    LET k == LastSlash(path, Len(path))
    IN  IF k = 0 THEN "/" ELSE SubSeq(path, 1, k - 1)

\* The index of the last "." of a name, 0 when there is none.
RECURSIVE LastDot(_, _)
LastDot(name, i) ==
    IF i = 0 THEN 0
    ELSE IF CharAt(name, i) = "." THEN i
    ELSE LastDot(name, i - 1)

\* TFile.extension: what follows the last "." of the name.
Extension(path) ==
    LET n == FileName(path)
        k == LastDot(n, Len(n))
    IN  IF k = 0 THEN "" ELSE SubSeq(n, k + 1, Len(n))

\* String.prototype.localeCompare on the model's names, which use blanks,
\* ".", "-", "(", ")", digits and letters. The collation compares the primary
\* weights first, blank < punctuation < digits < letters with a letter's two
\* cases of one weight; names of equal primary weights are ordered by case,
\* lower before upper, at the first character where the case differs.
CollationOrder == " -.()0123456789abcdefghijklmnopqrstuvwxyz"

UpperCase == "ABCDEFGHIJKLMNOPQRSTUVWXYZ"
LowerCase == "abcdefghijklmnopqrstuvwxyz"

IndexIn(s, c) ==
    IF \E i \in 1..Len(s) : CharAt(s, i) = c
    THEN CHOOSE i \in 1..Len(s) : CharAt(s, i) = c
    ELSE 0

ToLowerChar(c) ==
    LET k == IndexIn(UpperCase, c)
    IN  IF k = 0 THEN c ELSE CharAt(LowerCase, k)

RECURSIVE ToLowerCase(_)
ToLowerCase(s) ==
    IF Len(s) = 0 THEN "" ELSE ToLowerChar(CharAt(s, 1)) \o ToLowerCase(SubSeq(s, 2, Len(s)))

\* The primary weight of a character, and its rank with the case counted.
PrimaryWeight(c) == IndexIn(CollationOrder, ToLowerChar(c))
Weight(c) == 2 * PrimaryWeight(c) + (IF IndexIn(UpperCase, c) # 0 THEN 1 ELSE 0)

\* The comparison of two texts character by character, by primary weight.
RECURSIVE ComparePrimary(_, _)
ComparePrimary(a, b) ==
    IF Len(a) = 0 /\ Len(b) = 0 THEN 0
    ELSE IF Len(a) = 0 THEN -1
    ELSE IF Len(b) = 0 THEN 1
    ELSE IF PrimaryWeight(CharAt(a, 1)) # PrimaryWeight(CharAt(b, 1))
         THEN PrimaryWeight(CharAt(a, 1)) - PrimaryWeight(CharAt(b, 1))
    ELSE ComparePrimary(SubSeq(a, 2, Len(a)), SubSeq(b, 2, Len(b)))

\* The same comparison with the case counted.
RECURSIVE CompareWeight(_, _)
CompareWeight(a, b) ==
    IF Len(a) = 0 /\ Len(b) = 0 THEN 0
    ELSE IF Len(a) = 0 THEN -1
    ELSE IF Len(b) = 0 THEN 1
    ELSE IF Weight(CharAt(a, 1)) # Weight(CharAt(b, 1))
         THEN Weight(CharAt(a, 1)) - Weight(CharAt(b, 1))
    ELSE CompareWeight(SubSeq(a, 2, Len(a)), SubSeq(b, 2, Len(b)))

\* Negative, zero or positive as a sorts before, with or after b.
LocaleCompare(a, b) ==
    IF ComparePrimary(a, b) # 0 THEN ComparePrimary(a, b) ELSE CompareWeight(a, b)

----------------------------------------------------------------------------
(* Instants and calendar dates. *)

Digit(d) == CharAt("0123456789", d + 1)
Pad2(n) == Digit((n \div 10) % 10) \o Digit(n % 10)
Pad4(n) == Pad2(n \div 100) \o Pad2(n % 100)

\* The civil date of a day number (days since 1970-01-01), as YYYY-MM-DD.
CivilDate(z) ==
    LET z2  == z + 719468
        era == z2 \div 146097
        doe == z2 - era * 146097
        yoe == (doe - doe \div 1460 + doe \div 36524 - doe \div 146096) \div 365
        doy == doe - (365 * yoe + yoe \div 4 - yoe \div 100)
        mp  == (5 * doy + 2) \div 153
        d   == doy - (153 * mp + 2) \div 5 + 1
        m   == IF mp < 10 THEN mp + 3 ELSE mp - 9
        y   == yoe + era * 400 + (IF m <= 2 THEN 1 ELSE 0)
    IN  Pad4(y) \o "-" \o Pad2(m) \o "-" \o Pad2(d)

\* The day number of an instant in UTC, and in the local zone.
UtcDay(t) == t \div 86400
LocalSeconds(t, zone) == t + zone * 60
LocalDay(t, zone) == LocalSeconds(t, zone) \div 86400

\* date.toISOString().split('T')[0]: the UTC calendar date of an instant.
IsoDate(t) == CivilDate(UtcDay(t))

\* The weekday of a day number, 0 = sunday .. 6 = saturday.
WeekdayOf(day) == (day + 4) % 7

\* Date.prototype.getDay: the weekday of the instant in the local zone.
GetDay(t, zone) == WeekdayOf(LocalDay(t, zone))

\* Date.prototype.setDate(getDate() + n): n local days later, same local time.
AddDays(t, n) == t + n * 86400

DayAbbr == <<"Sun", "Mon", "Tue", "Wed", "Thu", "Fri", "Sat">>

\* The day number of the civil date y-m-d (the inverse of CivilDate).
DaysFromCivil(y, m, d) ==
    LET y2  == IF m <= 2 THEN y - 1 ELSE y
        era == y2 \div 400
        yoe == y2 - era * 400
        mp  == (m + 9) % 12
        doy == (153 * mp + 2) \div 5 + d - 1
        doe == yoe * 365 + yoe \div 4 - yoe \div 100 + doy
    IN  era * 146097 + doe - 719468

DaysInMonth(y, m) ==
    (IF m = 12 THEN DaysFromCivil(y + 1, 1, 1) ELSE DaysFromCivil(y, m + 1, 1))
        - DaysFromCivil(y, m, 1)

IsDigits(s) == \A i \in 1..Len(s) : IndexIn("0123456789", CharAt(s, i)) # 0

\* The number a text of digits writes.
RECURSIVE ToInt(_)
ToInt(s) ==
    IF Len(s) = 0 THEN 0
    ELSE 10 * ToInt(SubSeq(s, 1, Len(s) - 1)) + (IndexIn("0123456789", CharAt(s, Len(s))) - 1)

\* The tokens of a moment format, among those the formats of the model use:
\* YYYY, MM, DD, ddd, HH, mm, ss; any other character stands for itself.
MomentTokens == <<"YYYY", "ddd", "MM", "DD", "HH", "mm", "ss">>

FirstToken(fmt) ==
    IF \E i \in DOMAIN MomentTokens : StartsWith(fmt, MomentTokens[i])
    THEN MomentTokens[CHOOSE i \in DOMAIN MomentTokens : StartsWith(fmt, MomentTokens[i])]
    ELSE CharAt(fmt, 1)

RECURSIVE Tokens(_)
Tokens(fmt) ==
    IF Len(fmt) = 0 THEN <<>>
    ELSE <<FirstToken(fmt)>> \o Tokens(SubSeq(fmt, Len(FirstToken(fmt)) + 1, Len(fmt)))

\* What one token prints for an instant, in the local zone.
FormatToken(token, t, zone) ==
    LET date == CivilDate(LocalDay(t, zone))
        s    == LocalSeconds(t, zone) % 86400
    IN  IF token = "YYYY" THEN SubSeq(date, 1, 4)
        ELSE IF token = "MM" THEN SubSeq(date, 6, 7)
        ELSE IF token = "DD" THEN SubSeq(date, 9, 10)
        ELSE IF token = "ddd" THEN DayAbbr[GetDay(t, zone) + 1]
        ELSE IF token = "HH" THEN Pad2(s \div 3600)
        ELSE IF token = "mm" THEN Pad2((s % 3600) \div 60)
        ELSE IF token = "ss" THEN Pad2(s % 60)
        ELSE token

RECURSIVE FormatTokens(_, _, _)
FormatTokens(tokens, t, zone) ==
    IF tokens = <<>> THEN ""
    ELSE FormatToken(Head(tokens), t, zone) \o FormatTokens(Tail(tokens), t, zone)

\* moment(date).format(fmt)
momentFormat(fmt, t, zone) == FormatTokens(Tokens(fmt), t, zone)

\* moment(date).format(this.settings.timestampFormat)
formatTimestamp(s, t, zone) == momentFormat(s.timestampFormat, t, zone)

\* The fields a strict parse reads; -1 for a field the text does not give.
NoFields == [ok |-> TRUE, Y |-> -1, M |-> -1, D |-> -1, d |-> -1, H |-> -1, m |-> -1, s |-> -1]
BadFields == [NoFields EXCEPT !.ok = FALSE]

\* The number of characters a token takes in a strict parse.
TokenWidth(token) == IF token = "YYYY" THEN 4 ELSE IF token = "ddd" THEN 3
                     ELSE IF token \in {"MM", "DD", "HH", "mm", "ss"} THEN 2 ELSE 1

\* The 0-based weekday a short day name writes, in any case; -1 for none.
IndexOfDayAbbr(text) ==
    IF \E k \in DOMAIN DayAbbr : ToLowerCase(DayAbbr[k]) = ToLowerCase(text)
    THEN (CHOOSE k \in DOMAIN DayAbbr : ToLowerCase(DayAbbr[k]) = ToLowerCase(text)) - 1
    ELSE -1

\* One token read from the head of the text, in a strict parse.
ParseToken(token, piece, f) ==
    IF token = "ddd"
    THEN IF IndexOfDayAbbr(piece) = -1 THEN BadFields ELSE [f EXCEPT !.d = IndexOfDayAbbr(piece)]
    ELSE IF token \in {"YYYY", "MM", "DD", "HH", "mm", "ss"}
    THEN IF ~IsDigits(piece) THEN BadFields
         ELSE IF token = "YYYY" THEN [f EXCEPT !.Y = ToInt(piece)]
         ELSE IF token = "MM" THEN [f EXCEPT !.M = ToInt(piece)]
         ELSE IF token = "DD" THEN [f EXCEPT !.D = ToInt(piece)]
         ELSE IF token = "HH" THEN [f EXCEPT !.H = ToInt(piece)]
         ELSE IF token = "mm" THEN [f EXCEPT !.m = ToInt(piece)]
         ELSE [f EXCEPT !.s = ToInt(piece)]
    ELSE IF piece = token THEN f ELSE BadFields

\* The strict parse of a text against the tokens: every token matches in turn
\* and nothing of the text is left over.
RECURSIVE ParseTokens(_, _, _)
ParseTokens(tokens, text, f) ==
    IF ~f.ok THEN f
    ELSE IF tokens = <<>> THEN (IF Len(text) = 0 THEN f ELSE BadFields)
    ELSE LET w == TokenWidth(Head(tokens))
         IN  IF Len(text) < w THEN BadFields
             ELSE ParseTokens(Tail(tokens), SubSeq(text, w + 1, Len(text)),
                              ParseToken(Head(tokens), SubSeq(text, 1, w), f))

NoDate == ""

\* moment(text, fmt, true) and, when it is valid, its format('YYYY-MM-DD');
\* NoDate when it is not. A weekday without a date is the day of that name in
\* the current week, which starts on sunday; a date takes the fields the text
\* does not give from today as far as the first field given, and January and
\* the 1st after it; the hour 24 with no minutes and seconds is the next day's
\* midnight. The formats of the model give a weekday or a date, never both.
momentParse(text, fmt, t, zone) ==
    LET f     == ParseTokens(Tokens(fmt), text, NoFields)
        today == CivilDate(LocalDay(t, zone))
        H     == IF f.H = -1 THEN 0 ELSE f.H
        m     == IF f.m = -1 THEN 0 ELSE f.m
        s     == IF f.s = -1 THEN 0 ELSE f.s
        timeOk  == m <= 59 /\ s <= 59 /\ (H <= 23 \/ (H = 24 /\ m = 0 /\ s = 0))
        nextDay == IF H = 24 THEN 1 ELSE 0
        y     == IF f.Y # -1 THEN f.Y ELSE ToInt(SubSeq(today, 1, 4))
        mo    == IF f.M # -1 THEN f.M
                 ELSE IF f.Y = -1 THEN ToInt(SubSeq(today, 6, 7)) ELSE 1
        dd    == IF f.D # -1 THEN f.D
                 ELSE IF f.Y = -1 /\ f.M = -1 THEN ToInt(SubSeq(today, 9, 10)) ELSE 1
    IN  IF ~f.ok \/ ~timeOk THEN NoDate
        ELSE CASE f.d # -1 /\ f.Y = -1 /\ f.M = -1 /\ f.D = -1 ->
                    CivilDate(LocalDay(t, zone) - GetDay(t, zone) + f.d + nextDay)
               [] f.d = -1 ->
                    IF mo \in 1..12 /\ dd >= 1 /\ dd <= DaysInMonth(y, mo)
                    THEN CivilDate(DaysFromCivil(y, mo, dd) + nextDay)
                    ELSE NoDate

\* file.basename: the name without its extension.
BaseName(path) ==
    LET n == FileName(path)
        k == LastDot(n, Len(n))
    IN  IF k = 0 THEN n ELSE SubSeq(n, 1, k - 1)

----------------------------------------------------------------------------
(* The relative date parser of DateSuggestModal. *)

days == <<"sunday", "monday", "tuesday", "wednesday", "thursday", "friday", "saturday">>

\* Array.prototype.indexOf on days, 0-based, -1 when absent.
IndexOfDay(dayName) ==
    IF \E i \in 1..Len(days) : days[i] = dayName
    THEN (CHOOSE i \in 1..Len(days) : days[i] = dayName) - 1
    ELSE -1

\* The text has a line break, which "." of a regular expression does not match.
HasLineBreak(s) == \E i \in 1..Len(s) : CharAt(s, i) \in {"\n", "\r"}

\* text.match(/^this (.+)$/) and text.match(/^last (.+)$/): the prefix, then at
\* least one more character and no line break up to the end of the text.
MatchesPrefix(text, prefix) ==
    /\ StartsWith(text, prefix)
    /\ Len(text) > Len(prefix)
    /\ ~HasLineBreak(SubSeq(text, Len(prefix) + 1, Len(text)))

\* parseDateString: the weekday is read in the local zone (getDay), the day is
\* moved in local days (setDate), and the result is the UTC calendar date of
\* the moved instant (toISOString).
thisDate(t, zone, targetDay) ==
    LET todayDay  == GetDay(t, zone)
        daysAhead == (targetDay - todayDay + 7) % 7
    IN  IsoDate(AddDays(t, daysAhead))

lastDate(t, zone, targetDay) ==
    LET todayDay       == GetDay(t, zone)
        daysBehind     == (todayDay - targetDay + 7) % 7
        daysToSubtract == IF daysBehind = 0 THEN 7 ELSE daysBehind
    IN  IsoDate(AddDays(t, 0 - daysToSubtract))

parseDateString(input, t, zone) ==
    LET text == Trim(ToLowerCase(input))
    IN  IF text = "today" THEN IsoDate(t)
        ELSE IF text = "yesterday" THEN IsoDate(AddDays(t, -1))
        ELSE IF text = "tomorrow" THEN IsoDate(AddDays(t, 1))
        ELSE IF MatchesPrefix(text, "this ")
             THEN LET targetDay == IndexOfDay(SubSeq(text, 6, Len(text)))
                  IN  IF targetDay = -1 THEN input ELSE thisDate(t, zone, targetDay)
        ELSE IF MatchesPrefix(text, "last ")
             THEN LET targetDay == IndexOfDay(SubSeq(text, 6, Len(text)))
                  IN  IF targetDay = -1 THEN input ELSE lastDate(t, zone, targetDay)
        ELSE input

----------------------------------------------------------------------------
(* Settings and the file store. *)

DEFAULT_SETTINGS ==
    [inboxFolder |-> "000_inbox", dailyNotesFolder |-> "001_journal",
     timestampFormat |-> "ddd HH mm ss", lastImportDate |-> "", dummySetting |-> "",
     enableDailyNoteCheck |-> TRUE]

\* loadSettings: the defaults, overridden by what was persisted.
loadSettings(data) ==
    [k \in DOMAIN DEFAULT_SETTINGS |->
        IF k \in DOMAIN data THEN data[k] ELSE DEFAULT_SETTINGS[k]]

NoData == [k \in {} |-> ""]
EmptyVault == [x \in {} |-> ""]

Exists(v, path) == path \in DOMAIN v

\* vault.create, vault.modify, vault.delete and vault.rename, when they succeed.
Create(v, path, content) ==
    [x \in DOMAIN v \cup {path} |-> IF x = path THEN content ELSE v[x]]
Modify(v, path, content) == [v EXCEPT ![path] = content]
Delete(v, path) == [x \in DOMAIN v \ {path} |-> v[x]]
Rename(v, old, new) ==
    [x \in (DOMAIN v \ {old}) \cup {new} |-> IF x = new THEN v[old] ELSE v[x]]

\* The active file follows a rename of its note and is lost with its deletion.
ActiveAfterRename(a, old, new) == IF a = old THEN new ELSE a
ActiveAfterDelete(a, path) == IF a = path THEN NoFile ELSE a

isInInbox(path, s) ==
    \/ ParentPath(path) = s.inboxFolder
    \/ StartsWith(path, s.inboxFolder \o "/")

getInboxFiles(v, s) == {f \in DOMAIN v : isInInbox(f, s)}

\* files.sort((a, b) => a.name.localeCompare(b.name)): the orders of the set
\* that ascend by name (a.md before A.md). Notes of equal name (in different
\* folders) keep the order the host lists them in, which the program does not
\* control.
SortedByName(files) ==
    {sq \in [1..Cardinality(files) -> files] :
        /\ \A i, j \in DOMAIN sq : i # j => sq[i] # sq[j]
        /\ \A i \in DOMAIN sq : i > 1 =>
               LocaleCompare(FileName(sq[i - 1]), FileName(sq[i])) <= 0}

\* files.findIndex(f => f.path === path), 0-based, -1 when absent.
findIndex(files, path) ==
    IF \E i \in DOMAIN files : files[i] = path
    THEN (CHOOSE i \in DOMAIN files : files[i] = path) - 1
    ELSE -1

dailyPath(s, dateString) == s.dailyNotesFolder \o "/" \o dateString \o ".md"

READ_PREFIX == "(READ) "

----------------------------------------------------------------------------
(* Workflow invocations. *)

Procs == {1, 2}

Idle ==
    [kind |-> "none", pc |-> "idle", file |-> NoFile, target |-> "", files |-> <<>>,
     idx |-> 0, buf |-> "", existing |-> "", arg |-> "", date |-> "", prev |-> NoFile,
     sel |-> {}, data |-> NoData, at |-> 0,
     vault0 |-> EmptyVault, notices |-> <<>>, errors |-> <<>>, outcome |-> "none"]

\* A slot is free when no invocation is running in it.
Free(p) == wf[p].pc \in {"idle", "done"}
Quiet == \A q \in Procs : Free(q)

\* A fresh invocation: its kind, where it stands, and the state it started in.
Begin(kind, pc) ==
    [Idle EXCEPT !.kind = kind, !.pc = pc, !.prev = active, !.vault0 = vault,
                 !.outcome = "running"]

\* The invocation returns (its promise resolves), maybe after a notice.
Return(w) == [w EXCEPT !.pc = "done", !.outcome = "returned"]
Notice(w, msg) == [w EXCEPT !.notices = Append(@, msg)]
ConsoleError(w, msg) == [w EXCEPT !.errors = Append(@, msg)]
\* The invocation's promise rejects with nothing in the plugin to catch it.
Reject(w) == [w EXCEPT !.pc = "done", !.outcome = "unhandled"]

----------------------------------------------------------------------------
(* Go to next inbox note. *)

\* A goToNextInboxNote that stays on the last note instead of wrapping.
nextFile_nowrap(files, act, s) ==
    LET currentIndex ==
            IF act # NoFile /\ isInInbox(act, s) THEN findIndex(files, act) ELSE -1
    IN  files[(IF currentIndex + 1 >= Len(files) THEN Len(files) - 1 ELSE currentIndex + 1) + 1]

\* The note goToNextInboxNote picks from the sorted inbox notes.
nextFile(files, act, s) ==
    LET currentIndex ==
            IF act # NoFile /\ isInInbox(act, s) THEN findIndex(files, act) ELSE -1
    IN  files[((currentIndex + 1) % Len(files)) + 1]

\* The command, up to its await of openFile.
goToNextInboxNote(p) ==
    /\ Free(p) /\ ops > 0
    /\ ops' = ops - 1
    /\ LET inbox == getInboxFiles(vault, settings)
           w     == Begin("next", "open")
       IN  IF inbox = {}
           THEN wf' = [wf EXCEPT ![p] = Return(Notice(w, "No files found in inbox folder"))]
           ELSE \E files \in SortedByName(inbox) :
                    wf' = [wf EXCEPT ![p] = [w EXCEPT !.files = files,
                                                      !.target = nextFile(files, active, settings)]]
    /\ UNCHANGED <<vault, active, settings, saved, now, tz, prompt, checked, session, cancelled>>

\* await this.app.workspace.getLeaf().openFile(nextFile), outside any try.
goToNextInboxNote_open(p) ==
    /\ wf[p].kind = "next" /\ wf[p].pc = "open"
    /\ \E ok \in BOOLEAN :
        IF ok /\ Exists(vault, wf[p].target)
        THEN /\ active' = wf[p].target
             /\ wf' = [wf EXCEPT ![p] = Return(@)]
        ELSE /\ active' = active
             /\ wf' = [wf EXCEPT ![p] = Reject(@)]
    /\ UNCHANGED <<vault, settings, saved, now, tz, prompt, checked, ops, session, cancelled>>

----------------------------------------------------------------------------
(* Mark as read, snooze. *)

\* validateInboxFile: the notice it shows, "" when the active file is valid.
validateInboxFile(act, s) ==
    IF act = NoFile THEN "No file is currently open"
    ELSE IF ~isInInbox(act, s) THEN "File is not in the inbox folder"
    ELSE ""

\* A markFileAsRead that never finds the marker.
alreadyRead_never(name) == FALSE

\* file.name.startsWith('(READ) ')
alreadyRead(name) == StartsWith(name, READ_PREFIX)

\* file.parent ? `${file.parent.path}/${newName}` : newName
siblingPath(path, newName) == ParentPath(path) \o "/" \o newName

\* The command, up to its await of vault.rename.
markFileAsRead(p) ==
    /\ Free(p) /\ ops > 0
    /\ ops' = ops - 1
    /\ LET w   == Begin("mark", "rename")
           msg == validateInboxFile(active, settings)
       IN  wf' = [wf EXCEPT ![p] =
                IF msg # "" THEN Return(Notice(w, msg))
                ELSE IF alreadyRead(FileName(active))
                     THEN Return(Notice(w, "File is already marked as read"))
                ELSE [w EXCEPT !.file = active,
                               !.target = siblingPath(active, READ_PREFIX \o FileName(active))]]
    /\ UNCHANGED <<vault, active, settings, saved, now, tz, prompt, checked, session, cancelled>>

\* The command, up to its await of vault.rename.
snoozeFile(p) ==
    /\ Free(p) /\ ops > 0
    /\ ops' = ops - 1
    /\ LET w         == Begin("snooze", "rename")
           msg       == validateInboxFile(active, settings)
           timestamp == formatTimestamp(settings, now, tz)
           newName   == timestamp \o " (snoozed)." \o Extension(active)
       IN  wf' = [wf EXCEPT ![p] =
                IF msg # "" THEN Return(Notice(w, msg))
                ELSE [w EXCEPT !.file = active, !.target = siblingPath(active, newName)]]
    /\ UNCHANGED <<vault, active, settings, saved, now, tz, prompt, checked, session, cancelled>>

\* vault.rename fails when the note is gone, the new path is taken, or on a
\* fault of the store.
renameSucceeds(v, old, new, ok) == ok /\ Exists(v, old) /\ ~Exists(v, new)

\* await this.app.vault.rename(file, newPath), in the try of either command.
rename_step(p) ==
    /\ wf[p].kind \in {"mark", "snooze"} /\ wf[p].pc = "rename"
    /\ \E ok \in BOOLEAN :
        IF renameSucceeds(vault, wf[p].file, wf[p].target, ok)
        THEN /\ vault' = Rename(vault, wf[p].file, wf[p].target)
             /\ active' = ActiveAfterRename(active, wf[p].file, wf[p].target)
             /\ wf' = [wf EXCEPT ![p] = Return(Notice(@,
                         IF wf[p].kind = "mark" THEN "File marked as read"
                         ELSE "File snoozed with timestamp: "))]
        ELSE /\ UNCHANGED <<vault, active>>
             /\ wf' = [wf EXCEPT ![p] = Return(Notice(@,
                         IF wf[p].kind = "mark" THEN "Failed to rename file: "
                         ELSE "Failed to snooze file: "))]
    /\ UNCHANGED <<settings, saved, now, tz, prompt, checked, ops, session, cancelled>>

----------------------------------------------------------------------------
(* Create new inbox note. *)

\* `${this.settings.inboxFolder}/${timestamp}.md`
inboxPath(s, t, zone) == s.inboxFolder \o "/" \o formatTimestamp(s, t, zone) \o ".md"

\* vault.create fails when the path is taken, or on a fault of the store.
createSucceeds(v, path, ok) == ok /\ ~Exists(v, path)

\* The command, up to its await of vault.create.
createNewInboxNote(p) ==
    /\ Free(p) /\ ops > 0
    /\ ops' = ops - 1
    /\ wf' = [wf EXCEPT ![p] =
                [Begin("create", "create") EXCEPT !.target = inboxPath(settings, now, tz)]]
    /\ UNCHANGED <<vault, active, settings, saved, now, tz, prompt, checked, session, cancelled>>

\* await this.app.vault.create(inboxPath, '')
createNewInboxNote_create(p) ==
    /\ wf[p].kind = "create" /\ wf[p].pc = "create"
    /\ \E ok \in BOOLEAN :
        IF createSucceeds(vault, wf[p].target, ok)
        THEN /\ vault' = Create(vault, wf[p].target, "")
             /\ wf' = [wf EXCEPT ![p].pc = "open"]
        ELSE /\ vault' = vault
             /\ wf' = [wf EXCEPT ![p] = Return(Notice(@, "Failed to create inbox note: "))]
    /\ UNCHANGED <<active, settings, saved, now, tz, prompt, checked, ops, session, cancelled>>

\* await this.app.workspace.getLeaf().openFile(...), then the notice.
createNewInboxNote_open(p) ==
    /\ wf[p].kind = "create" /\ wf[p].pc = "open"
    /\ \E ok \in BOOLEAN :
        IF ok /\ Exists(vault, wf[p].target)
        THEN /\ active' = wf[p].target
             /\ wf' = [wf EXCEPT ![p] = Return(Notice(@, "Created new inbox note: "))]
        ELSE /\ active' = active
             /\ wf' = [wf EXCEPT ![p] = Return(Notice(@, "Failed to create inbox note: "))]
    /\ UNCHANGED <<vault, settings, saved, now, tz, prompt, checked, ops, session, cancelled>>

----------------------------------------------------------------------------
(* The startup auto-check and its confirmation prompt. *)

\* A test of the content that does not trim it.
hasContent_untrimmed(content) == Len(content) > 0

\* content.trim().length > 0
hasContent(content) == Len(Trim(content)) > 0

\* An auto-check that ignores the date of the last import.
shouldPrompt_always(hasReminders, lastImportDate, todayDate) == hasReminders

\* hasReminders && !alreadyImportedToday
shouldPrompt(hasReminders, lastImportDate, todayDate) ==
    hasReminders /\ ~(lastImportDate = todayDate)

\* The timer set by onload fires, once per session: checkAndImportDailyNote when
\* the check is enabled, up to the await of vault.read in
\* todaysDailyNoteHasContent. An absent daily note has no content.
checkAndImportDailyNote(p) ==
    /\ ~checked /\ Free(p)
    /\ checked' = TRUE
    /\ LET w    == Begin("check", "read")
           path == dailyPath(settings, IsoDate(now))
       IN  IF ~settings.enableDailyNoteCheck THEN wf' = wf
           ELSE IF ~Exists(vault, path) THEN wf' = [wf EXCEPT ![p] = Return(w)]
           ELSE wf' = [wf EXCEPT ![p] = [w EXCEPT !.file = path]]
    /\ UNCHANGED <<vault, active, settings, saved, now, tz, prompt, ops, session, cancelled>>

\* await this.app.vault.read(file), then the decision to open the modal. The
\* caller does not await or catch the check: a failed read rejects unhandled.
checkAndImportDailyNote_read(p) ==
    /\ wf[p].kind = "check" /\ wf[p].pc = "read"
    /\ \E ok \in BOOLEAN :
        IF ok /\ Exists(vault, wf[p].file)
        THEN LET content == vault[wf[p].file]
             IN  /\ prompt' = (prompt \/ shouldPrompt(hasContent(content),
                                        settings.lastImportDate, IsoDate(now)))
                 /\ wf' = [wf EXCEPT ![p] = Return([@ EXCEPT !.buf = content])]
        ELSE /\ prompt' = prompt
             /\ wf' = [wf EXCEPT ![p] = Reject(@)]
    /\ UNCHANGED <<vault, active, settings, saved, now, tz, checked, ops, session, cancelled>>

\* cancelBtn.onclick: the modal closes, nothing else happens.
ImportConfirmModal_cancel ==
    /\ prompt
    /\ prompt' = FALSE
    /\ cancelled' = [session |-> session, date |-> IsoDate(now)]
    /\ UNCHANGED <<vault, active, settings, saved, now, tz, wf, checked, ops, session>>

----------------------------------------------------------------------------
(* Import today's daily note to the inbox. *)

\* importDailyNote up to its await of vault.read: const date = new Date() is
\* kept in the field at, and an absent daily note ends the import silently.
importStart ==
    LET dateString == IsoDate(now)
        path       == dailyPath(settings, dateString)
        w          == [Begin("import", "read") EXCEPT !.arg = dateString, !.file = path,
                                                      !.at = now]
    IN  IF ~Exists(vault, path) THEN Return(w) ELSE w

\* The command.
importDailyNote(p) ==
    /\ Free(p) /\ ops > 0
    /\ ops' = ops - 1
    /\ wf' = [wf EXCEPT ![p] = importStart]
    /\ UNCHANGED <<vault, active, settings, saved, now, tz, prompt, checked, session, cancelled>>

\* importBtn.onclick: the modal closes and importDailyNote runs.
ImportConfirmModal_confirm(p) ==
    /\ prompt /\ Free(p) /\ ops > 0
    /\ prompt' = FALSE
    /\ ops' = ops - 1
    /\ wf' = [wf EXCEPT ![p] = importStart]
    /\ UNCHANGED <<vault, active, settings, saved, now, tz, checked, session, cancelled>>

\* await this.app.vault.read(dailyNote), outside the try; content of blanks
\* only ends the import silently. The new note is named by formatTimestamp(date):
\* the instant taken before the await, in the format set when the read returns.
importDailyNote_read(p) ==
    /\ wf[p].kind = "import" /\ wf[p].pc = "read"
    /\ \E ok \in BOOLEAN :
        wf' = [wf EXCEPT ![p] =
                IF ok /\ Exists(vault, wf[p].file)
                THEN LET content == vault[wf[p].file]
                     IN  IF ~hasContent(content) THEN Return(@)
                         ELSE [@ EXCEPT !.buf = content, !.pc = "create",
                                        !.target = inboxPath(settings, wf[p].at, tz)]
                ELSE Reject(@)]
    /\ UNCHANGED <<vault, active, settings, saved, now, tz, prompt, checked, ops, session, cancelled>>

\* await this.app.vault.create(inboxPath, content)
importDailyNote_create(p) ==
    /\ wf[p].kind = "import" /\ wf[p].pc = "create"
    /\ \E ok \in BOOLEAN :
        IF createSucceeds(vault, wf[p].target, ok)
        THEN /\ vault' = Create(vault, wf[p].target, wf[p].buf)
             /\ wf' = [wf EXCEPT ![p].pc = "modify"]
        ELSE /\ vault' = vault
             /\ wf' = [wf EXCEPT ![p] = Return(ConsoleError(@, "Failed to import daily note:"))]
    /\ UNCHANGED <<active, settings, saved, now, tz, prompt, checked, ops, session, cancelled>>

\* await this.app.vault.modify(dailyNote, ''), then lastImportDate is set and
\* saveSettings hands the settings to saveData.
importDailyNote_modify(p) ==
    /\ wf[p].kind = "import" /\ wf[p].pc = "modify"
    /\ \E ok \in BOOLEAN :
        IF ok /\ Exists(vault, wf[p].file)
        THEN /\ vault' = Modify(vault, wf[p].file, "")
             /\ settings' = [settings EXCEPT !.lastImportDate = wf[p].arg]
             /\ wf' = [wf EXCEPT ![p].pc = "save", ![p].data = settings']
        ELSE /\ UNCHANGED <<vault, settings>>
             /\ wf' = [wf EXCEPT ![p] = Return(ConsoleError(@, "Failed to import daily note:"))]
    /\ UNCHANGED <<active, saved, now, tz, prompt, checked, ops, session, cancelled>>

\* await this.saveSettings(), then the notice.
importDailyNote_save(p) ==
    /\ wf[p].kind = "import" /\ wf[p].pc = "save"
    /\ \E ok \in BOOLEAN :
        IF ok
        THEN /\ saved' = wf[p].data
             /\ wf' = [wf EXCEPT ![p] = Return(Notice(@, "Imported daily note reminders from "))]
        ELSE /\ saved' = saved
             /\ wf' = [wf EXCEPT ![p] = Return(ConsoleError(@, "Failed to import daily note:"))]
    /\ UNCHANGED <<vault, active, settings, now, tz, prompt, checked, ops, session, cancelled>>

----------------------------------------------------------------------------
(* Append the active inbox note to a daily note. *)

\* A separator chosen without trimming the daily note's content.
moveSeparator_untrimmed(existingContent) == IF existingContent # "" THEN "\n\n" ELSE ""

\* const separator = existingContent.trim() ? '\n\n' : ''
moveSeparator(existingContent) == IF Trim(existingContent) # "" THEN "\n\n" ELSE ""

\* existingContent + separator + inboxContent
appended(existingContent, inboxContent) ==
    existingContent \o moveSeparator(existingContent) \o inboxContent

\* The command: the active note is validated and the DateSuggestModal opens,
\* holding the note; the callback of the command ends there.
appendToDailyNote(p) ==
    /\ Free(p) /\ ops > 0
    /\ ops' = ops - 1
    /\ LET w   == Begin("move", "modal")
           msg == validateInboxFile(active, settings)
       IN  wf' = [wf EXCEPT ![p] =
                IF msg # "" THEN Return(Notice(w, msg)) ELSE [w EXCEPT !.file = active]]
    /\ UNCHANGED <<vault, active, settings, saved, now, tz, prompt, checked, session, cancelled>>

\* moveInboxNoteToDailyNote up to its await of vault.read(inboxFile).
moveStart(file, arg, targetDate) ==
    [Begin("move", "read_inbox") EXCEPT !.file = file, !.arg = arg, !.date = targetDate,
                                        !.target = dailyPath(settings, targetDate)]

\* The user chooses a suggestion of the modal, some time later: the phrase is
\* parsed at that instant and the move of the note the modal holds starts.
DateSuggestModal_onChooseSuggestion(p, item) ==
    /\ wf[p].kind = "move" /\ wf[p].pc = "modal"
    /\ wf' = [wf EXCEPT ![p] = moveStart(wf[p].file, item, parseDateString(item, now, tz))]
    /\ UNCHANGED <<vault, active, settings, saved, now, tz, prompt, checked, ops, session, cancelled>>

\* The item the file menu adds for a note of the inbox, clicked:
\* appendToDailyNoteFromFilename parses the note's name as a timestamp and moves
\* the note to the daily note of that date, whichever note is active.
appendToDailyNoteFromFilename(p, file) ==
    /\ Free(p) /\ ops > 0
    /\ Exists(vault, file) /\ isInInbox(file, settings)
    /\ ops' = ops - 1
    /\ LET targetDate == momentParse(BaseName(file), settings.timestampFormat, now, tz)
       IN  wf' = [wf EXCEPT ![p] =
                IF targetDate = NoDate
                THEN Return(Notice([Begin("move", "parse") EXCEPT !.arg = BaseName(file)],
                                   "Could not parse date from filename "))
                ELSE moveStart(file, BaseName(file), targetDate)]
    /\ UNCHANGED <<vault, active, settings, saved, now, tz, prompt, checked, session, cancelled>>

\* const inboxContent = await this.app.vault.read(inboxFile), outside the try;
\* then the look-up of the daily note.
moveInboxNoteToDailyNote_read(p) ==
    /\ wf[p].kind = "move" /\ wf[p].pc = "read_inbox"
    /\ \E ok \in BOOLEAN :
        wf' = [wf EXCEPT ![p] =
                IF ok /\ Exists(vault, wf[p].file)
                THEN [@ EXCEPT !.buf = vault[wf[p].file],
                               !.pc = IF Exists(vault, wf[p].target) THEN "read_daily"
                                      ELSE "create"]
                ELSE Reject(@)]
    /\ UNCHANGED <<vault, active, settings, saved, now, tz, prompt, checked, ops, session, cancelled>>

\* await this.app.vault.create(dailyNotePath, '')
moveInboxNoteToDailyNote_create(p) ==
    /\ wf[p].kind = "move" /\ wf[p].pc = "create"
    /\ \E ok \in BOOLEAN :
        IF createSucceeds(vault, wf[p].target, ok)
        THEN /\ vault' = Create(vault, wf[p].target, "")
             /\ wf' = [wf EXCEPT ![p].pc = "read_daily"]
        ELSE /\ vault' = vault
             /\ wf' = [wf EXCEPT ![p] = Return(Notice(@, "Failed to move note: "))]
    /\ UNCHANGED <<active, settings, saved, now, tz, prompt, checked, ops, session, cancelled>>

\* const existingContent = await this.app.vault.read(dailyNote)
moveInboxNoteToDailyNote_readDaily(p) ==
    /\ wf[p].kind = "move" /\ wf[p].pc = "read_daily"
    /\ \E ok \in BOOLEAN :
        wf' = [wf EXCEPT ![p] =
                IF ok /\ Exists(vault, wf[p].target)
                THEN [@ EXCEPT !.existing = vault[wf[p].target], !.pc = "modify"]
                ELSE Return(Notice(@, "Failed to move note: "))]
    /\ UNCHANGED <<vault, active, settings, saved, now, tz, prompt, checked, ops, session, cancelled>>

\* A moveInboxNoteToDailyNote that appends to what the daily note holds at the
\* moment of the write, instead of to what it read one await earlier.
moveInboxNoteToDailyNote_modify_atomic(p) ==
    /\ wf[p].kind = "move" /\ wf[p].pc = "modify"
    /\ \E ok \in BOOLEAN :
        IF ok /\ Exists(vault, wf[p].target)
        THEN /\ vault' = Modify(vault, wf[p].target,
                                appended(vault[wf[p].target], wf[p].buf))
             /\ wf' = [wf EXCEPT ![p].pc = "delete"]
        ELSE /\ vault' = vault
             /\ wf' = [wf EXCEPT ![p] = Return(Notice(@, "Failed to move note: "))]
    /\ UNCHANGED <<active, settings, saved, now, tz, prompt, checked, ops, session, cancelled>>

\* await this.app.vault.modify(dailyNote, existingContent + separator + inboxContent)
moveInboxNoteToDailyNote_modify(p) ==
    /\ wf[p].kind = "move" /\ wf[p].pc = "modify"
    /\ \E ok \in BOOLEAN :
        IF ok /\ Exists(vault, wf[p].target)
        THEN /\ vault' = Modify(vault, wf[p].target, appended(wf[p].existing, wf[p].buf))
             /\ wf' = [wf EXCEPT ![p].pc = "delete"]
        ELSE /\ vault' = vault
             /\ wf' = [wf EXCEPT ![p] = Return(Notice(@, "Failed to move note: "))]
    /\ UNCHANGED <<active, settings, saved, now, tz, prompt, checked, ops, session, cancelled>>

\* await this.app.vault.delete(inboxFile), then the notice.
moveInboxNoteToDailyNote_delete(p) ==
    /\ wf[p].kind = "move" /\ wf[p].pc = "delete"
    /\ \E ok \in BOOLEAN :
        IF ok /\ Exists(vault, wf[p].file)
        THEN /\ vault' = Delete(vault, wf[p].file)
             /\ active' = ActiveAfterDelete(active, wf[p].file)
             /\ wf' = [wf EXCEPT ![p] = Return(Notice(@, "Moved inbox note to "))]
        ELSE /\ UNCHANGED <<vault, active>>
             /\ wf' = [wf EXCEPT ![p] = Return(Notice(@, "Failed to move note: "))]
    /\ UNCHANGED <<settings, saved, now, tz, prompt, checked, ops, session, cancelled>>

----------------------------------------------------------------------------
(* Merge inbox notes. *)

\* const separator = mergedContent ? '\n\n' : ''
mergeSeparator(mergedContent) == IF mergedContent # "" THEN "\n\n" ELSE ""

\* `${this.settings.inboxFolder}/${mergedFileName}.md`
mergedFilePath(s, mergedFileName) == s.inboxFolder \o "/" \o mergedFileName \o ".md"

\* A merge that accepts a single selected note.
mergeRejection_one(v, s, selectedFiles, rawName) ==
    LET fileName == Trim(rawName)
    IN  IF fileName = "" THEN "Please enter a filename for the merged file"
        ELSE IF Cardinality(selectedFiles) = 0 THEN "Please select at least one file to merge"
        ELSE IF Exists(v, mergedFilePath(s, fileName))
             THEN "A file with that name already exists. Please choose a different name."
        ELSE ""

\* What the merge button and performMerge refuse, in the order they test it:
\* the notice shown, "" when the merge may go on.
mergeRejection(v, s, selectedFiles, rawName) ==
    LET fileName == Trim(rawName)
    IN  IF fileName = "" THEN "Please enter a filename for the merged file"
        ELSE IF Cardinality(selectedFiles) = 0 THEN "Please select at least one file to merge"
        ELSE IF Cardinality(selectedFiles) < 2 THEN "Please select at least 2 files to merge"
        ELSE IF Exists(v, mergedFilePath(s, fileName))
             THEN "A file with that name already exists. Please choose a different name."
        ELSE ""

\* The rejections after which the merge button returns with the modal open.
keepsModalOpen(msg) ==
    msg \in {"Please enter a filename for the merged file",
             "Please select at least one file to merge"}

\* The command: the MergeNotesModal opens on the inbox notes sorted by name;
\* the callback of the command ends there.
mergeInboxNotes(p) ==
    /\ Free(p) /\ ops > 0
    /\ ops' = ops - 1
    /\ LET w == Begin("merge", "modal")
       IN  IF getInboxFiles(vault, settings) = {}
           THEN wf' = [wf EXCEPT ![p] = Return(Notice(w, "No files found in inbox folder"))]
           ELSE \E inboxFiles \in SortedByName(getInboxFiles(vault, settings)) :
                    wf' = [wf EXCEPT ![p] = [w EXCEPT !.files = inboxFiles]]
    /\ UNCHANGED <<vault, active, settings, saved, now, tz, prompt, checked, session, cancelled>>

\* mergeBtn.onclick, with the notes ticked and the name typed by then: a
\* missing name or no ticked note leaves the modal open; otherwise the modal
\* closes and performMerge runs up to its first await of vault.read.
MergeNotesModal_merge(p, selectedFiles, rawName) ==
    /\ wf[p].kind = "merge" /\ wf[p].pc = "modal"
    /\ Len(wf[p].notices) < MaxClicks
    /\ selectedFiles \subseteq {wf[p].files[i] : i \in DOMAIN wf[p].files}
    /\ LET w   == [wf[p] EXCEPT !.arg = rawName, !.sel = selectedFiles, !.vault0 = vault]
           msg == mergeRejection(vault, settings, selectedFiles, rawName)
       IN  IF keepsModalOpen(msg) THEN wf' = [wf EXCEPT ![p] = Notice(w, msg)]
           ELSE IF msg # "" THEN wf' = [wf EXCEPT ![p] = Return(Notice(w, msg))]
           ELSE \E sortedFiles \in SortedByName(selectedFiles) :
                    wf' = [wf EXCEPT ![p] =
                            [w EXCEPT !.files = sortedFiles, !.idx = 1, !.pc = "read",
                                      !.target = mergedFilePath(settings, Trim(rawName))]]
    /\ UNCHANGED <<vault, active, settings, saved, now, tz, prompt, checked, ops, session, cancelled>>

\* cancelBtn.onclick: the modal closes.
MergeNotesModal_cancel(p) ==
    /\ wf[p].kind = "merge" /\ wf[p].pc = "modal"
    /\ wf' = [wf EXCEPT ![p] = Return(@)]
    /\ UNCHANGED <<vault, active, settings, saved, now, tz, prompt, checked, ops, session, cancelled>>

\* const content = await this.app.vault.read(file); mergedContent += separator + content
performMerge_read(p) ==
    /\ wf[p].kind = "merge" /\ wf[p].pc = "read"
    /\ \E ok \in BOOLEAN :
        wf' = [wf EXCEPT ![p] =
                IF ok /\ Exists(vault, wf[p].files[wf[p].idx])
                THEN LET content == vault[wf[p].files[wf[p].idx]]
                         last    == wf[p].idx = Len(wf[p].files)
                     IN  [@ EXCEPT !.buf = @ \o mergeSeparator(@) \o content,
                                   !.idx = IF last THEN 0 ELSE @ + 1,
                                   !.pc = IF last THEN "create" ELSE "read"]
                ELSE Return(Notice(@, "Failed to merge files: "))]
    /\ UNCHANGED <<vault, active, settings, saved, now, tz, prompt, checked, ops, session, cancelled>>

\* await this.app.vault.create(mergedFilePath, mergedContent)
performMerge_create(p) ==
    /\ wf[p].kind = "merge" /\ wf[p].pc = "create"
    /\ \E ok \in BOOLEAN :
        IF createSucceeds(vault, wf[p].target, ok)
        THEN /\ vault' = Create(vault, wf[p].target, wf[p].buf)
             /\ wf' = [wf EXCEPT ![p].pc = "delete", ![p].idx = 1]
        ELSE /\ vault' = vault
             /\ wf' = [wf EXCEPT ![p] = Return(Notice(@, "Failed to merge files: "))]
    /\ UNCHANGED <<active, settings, saved, now, tz, prompt, checked, ops, session, cancelled>>

\* await this.app.vault.delete(file), for each selected note in turn; after the
\* last, the notice. A deletion that fails throws out of the loop to the catch.
performMerge_delete(p) ==
    /\ wf[p].kind = "merge" /\ wf[p].pc = "delete"
    /\ \E ok \in BOOLEAN :
        IF ok /\ Exists(vault, wf[p].files[wf[p].idx])
        THEN LET last == wf[p].idx = Len(wf[p].files)
             IN  /\ vault' = Delete(vault, wf[p].files[wf[p].idx])
                 /\ active' = ActiveAfterDelete(active, wf[p].files[wf[p].idx])
                 /\ wf' = [wf EXCEPT ![p] =
                            IF last
                            THEN [Notice(@, "Successfully merged ") EXCEPT !.pc = "open"]
                            ELSE [@ EXCEPT !.idx = @ + 1]]
        ELSE /\ UNCHANGED <<vault, active>>
             /\ wf' = [wf EXCEPT ![p] = Return(Notice(@, "Failed to merge files: "))]
    /\ UNCHANGED <<settings, saved, now, tz, prompt, checked, ops, session, cancelled>>

\* await this.app.workspace.getLeaf().openFile(mergedFile)
performMerge_open(p) ==
    /\ wf[p].kind = "merge" /\ wf[p].pc = "open"
    /\ \E ok \in BOOLEAN :
        IF ok /\ Exists(vault, wf[p].target)
        THEN /\ active' = wf[p].target
             /\ wf' = [wf EXCEPT ![p] = Return(@)]
        ELSE /\ active' = active
             /\ wf' = [wf EXCEPT ![p] = Return(Notice(@, "Failed to merge files: "))]
    /\ UNCHANGED <<vault, settings, saved, now, tz, prompt, checked, ops, session, cancelled>>

----------------------------------------------------------------------------
(* The user and the host, between workflows. *)

StartInstant == 19799 * 86400 + 81000    \* 2024-03-17T22:30:00Z, a sunday
TickSeconds == 2 * 3600
\* The user opens a note, or closes the active one.
OpenFile(f) ==
    /\ Quiet
    /\ f \in DOMAIN vault \cup {NoFile}
    /\ f # active
    /\ active' = f
    /\ UNCHANGED <<vault, settings, saved, now, tz, wf, prompt, checked, ops, session, cancelled>>

\* The user opens another note while an invocation is suspended at an await:
\* nothing in the plugin holds the workspace while a workflow is in flight.
OpenFileInFlight(f) ==
    /\ ~Quiet
    /\ f \in DOMAIN vault \cup {NoFile}
    /\ f # active
    /\ active' = f
    /\ UNCHANGED <<vault, settings, saved, now, tz, wf, prompt, checked, ops, session, cancelled>>

\* The toggle of the settings tab, up to its await of saveData: the setting
\* changes in memory and the settings are handed to saveData.
ToggleDailyNoteCheck(p) ==
    /\ Free(p) /\ ops > 0
    /\ ops' = ops - 1
    /\ settings' = [settings EXCEPT !.enableDailyNoteCheck = ~@]
    /\ wf' = [wf EXCEPT ![p] =
                [Begin("setting", "save") EXCEPT !.arg = "enableDailyNoteCheck",
                                                 !.data = settings']]
    /\ UNCHANGED <<vault, active, saved, now, tz, prompt, checked, session, cancelled>>

\* The texts the user may give to the text settings.
TimestampFormats == {"ddd HH mm ss", "YYYY-MM-DD"}
SettingValues ==
    [inboxFolder |-> {"000_inbox", "000_inbox/sub"}, dailyNotesFolder |-> {"001_journal", "j"},
     timestampFormat |-> TimestampFormats, dummySetting |-> {"", "x"}]

\* A text field of the settings tab, up to its await of saveData.
addTextSetting(p, key, value) ==
    /\ Free(p) /\ ops > 0
    /\ key \in DOMAIN SettingValues /\ value \in SettingValues[key]
    /\ value # settings[key]
    /\ ops' = ops - 1
    /\ settings' = [settings EXCEPT ![key] = value]
    /\ wf' = [wf EXCEPT ![p] =
                [Begin("setting", "save") EXCEPT !.arg = key, !.data = settings']]
    /\ UNCHANGED <<vault, active, saved, now, tz, prompt, checked, session, cancelled>>

\* await this.plugin.saveSettings() of a change made in the settings tab:
\* nothing catches a fault of saveData.
saveSettings(p) ==
    /\ wf[p].kind = "setting" /\ wf[p].pc = "save"
    /\ \E ok \in BOOLEAN :
        IF ok
        THEN /\ saved' = wf[p].data
             /\ wf' = [wf EXCEPT ![p] = Return(@)]
        ELSE /\ saved' = saved
             /\ wf' = [wf EXCEPT ![p] = Reject(@)]
    /\ UNCHANGED <<vault, active, settings, now, tz, prompt, checked, ops, session, cancelled>>

\* Time passes, also while a workflow awaits or a modal is open.
Tick ==
    /\ now < StartInstant + MaxTicks * TickSeconds
    /\ now' = now + TickSeconds
    /\ UNCHANGED <<vault, active, settings, saved, tz, wf, prompt, checked, ops, session, cancelled>>

\* The host is closed and started again: onload loads the settings and sets
\* the timer; an open modal is gone.
Restart ==
    /\ Quiet
    /\ session < MaxSessions
    /\ session' = session + 1
    /\ settings' = loadSettings(saved)
    /\ checked' = FALSE
    /\ prompt' = FALSE
    /\ UNCHANGED <<vault, active, saved, now, tz, wf, ops, cancelled>>

----------------------------------------------------------------------------
(* The initial states. *)

TzOffsets == {-300, 0, 120}

InboxCandidates ==
    {"000_inbox/a.md", "000_inbox/A.md", "000_inbox/b.md", "000_inbox/(READ) a.md",
     "000_inbox/sub/a.md"}

OtherCandidates == {dailyPath(DEFAULT_SETTINGS, IsoDate(StartInstant))}

\* The contents a note may start with.
InitialContents(path) ==
    IF path = "000_inbox/a.md" THEN {"A", ""}
    ELSE IF path = "000_inbox/b.md" THEN {"B", ""}
    ELSE IF path = "000_inbox/A.md" THEN {"U"}
    ELSE IF path = "000_inbox/(READ) a.md" THEN {"R"}
    ELSE IF path = "000_inbox/sub/a.md" THEN {"S"}
    ELSE {"D", " \n", ""}

\* The vaults made of at most MaxInbox of the inbox candidates and any of the others.
Vaults(inboxPaths, otherPaths) ==
    UNION {{v \in [in \cup ot -> UNION {InitialContents(x) : x \in in \cup ot}] :
                \A x \in DOMAIN v : v[x] \in InitialContents(x)} :
           in \in {s \in SUBSET inboxPaths : Cardinality(s) <= MaxInbox},
           ot \in SUBSET otherPaths}

\* What loadData may return: nothing, or the date of an import made earlier today.
PersistedData == {NoData, [lastImportDate |-> IsoDate(StartInstant)]}

InitWith(vaults, instants, zones, persisted, budget) ==
    /\ vault \in vaults
    /\ active = NoFile
    /\ saved \in persisted
    /\ settings = loadSettings(saved)
    /\ now \in instants
    /\ tz \in zones
    /\ wf = [p \in Procs |-> Idle]
    /\ prompt = FALSE
    /\ checked = FALSE
    /\ ops = budget
    /\ session = 1
    /\ cancelled = [session |-> 0, date |-> ""]

\* The suggestions the user may choose, and the names the user may type.
MoveItems == {"today", "yesterday"}
MergeNames == {"merged", " a ", " ", ""}

InboxCommands(p) ==
    \/ goToNextInboxNote(p)
    \/ markFileAsRead(p)
    \/ snoozeFile(p)
    \/ createNewInboxNote(p)

InboxSteps(p) ==
    \/ goToNextInboxNote_open(p)
    \/ rename_step(p)
    \/ createNewInboxNote_create(p)
    \/ createNewInboxNote_open(p)

MergeCommands(p) ==
    \/ mergeInboxNotes(p)
    \/ \E sel \in SUBSET {wf[p].files[i] : i \in DOMAIN wf[p].files}, name \in MergeNames :
            MergeNotesModal_merge(p, sel, name)
    \/ MergeNotesModal_cancel(p)

MergeSteps(p) ==
    \/ performMerge_read(p)
    \/ performMerge_create(p)
    \/ performMerge_delete(p)
    \/ performMerge_open(p)

CheckSteps(p) ==
    \/ checkAndImportDailyNote(p)
    \/ checkAndImportDailyNote_read(p)

ImportSteps(p) ==
    \/ importDailyNote(p)
    \/ ImportConfirmModal_confirm(p)
    \/ importDailyNote_read(p)
    \/ importDailyNote_create(p)
    \/ importDailyNote_modify(p)
    \/ importDailyNote_save(p)

MoveCommands(p) ==
    \/ appendToDailyNote(p)
    \/ \E item \in MoveItems : DateSuggestModal_onChooseSuggestion(p, item)

MenuCommands(p) == \E file \in DOMAIN vault : appendToDailyNoteFromFilename(p, file)

SettingsSteps(p) ==
    \/ ToggleDailyNoteCheck(p)
    \/ \E key \in DOMAIN SettingValues : \E value \in SettingValues[key] :
            addTextSetting(p, key, value)
    \/ saveSettings(p)

MoveSteps(p) ==
    \/ moveInboxNoteToDailyNote_read(p)
    \/ moveInboxNoteToDailyNote_create(p)
    \/ moveInboxNoteToDailyNote_readDaily(p)
    \/ moveInboxNoteToDailyNote_modify(p)
    \/ moveInboxNoteToDailyNote_delete(p)

UserOpens == \E f \in DOMAIN vault \cup {NoFile} : OpenFile(f)

Sessions ==
    \/ ImportConfirmModal_cancel
    \/ Restart

(* The program, one workflow at a time. *)
\* The vaults with two inbox notes that have content, the daily note there or not.
MoveVaults ==
    {v \in Vaults({"000_inbox/a.md", "000_inbox/b.md"}, OtherCandidates) :
        /\ {"000_inbox/a.md", "000_inbox/b.md"} \subseteq DOMAIN v
        /\ v["000_inbox/a.md"] # "" /\ v["000_inbox/b.md"] # ""}

Init == InitWith(MoveVaults, {StartInstant}, {0}, {NoData}, MaxOps)

Next ==
    \/ InboxCommands(1) \/ InboxSteps(1)
    \/ MergeCommands(1) \/ MergeSteps(1)
    \/ ImportSteps(1) \/ CheckSteps(2)
    \/ MoveCommands(1) \/ MenuCommands(1) \/ MoveSteps(1)
    \/ SettingsSteps(1)
    \/ UserOpens \/ Sessions \/ Tick

Spec == Init /\ [][Next]_vars

(* The inbox commands alone. *)
\* The vaults of inbox notes, with or without a note outside the inbox (the
\* daily note of the day, holding "D") that the user may have open.
InboxVaults ==
    {v \in Vaults(InboxCandidates, OtherCandidates) :
        \A x \in DOMAIN v \cap OtherCandidates : v[x] = "D"}

InitInbox == InitWith(InboxVaults, {StartInstant}, {0}, {NoData}, InboxOps)
NextInbox == InboxCommands(1) \/ InboxSteps(1) \/ UserOpens \/ Tick
SpecInbox == InitInbox /\ [][NextInbox]_vars

(* The merge alone. *)
InitMerge == InitWith(Vaults(InboxCandidates, {}), {StartInstant}, {0}, {NoData}, MergeOps)
NextMerge == MergeCommands(1) \/ MergeSteps(1) \/ UserOpens
SpecMerge == InitMerge /\ [][NextMerge]_vars

(* The date parser, on the suggestions of the modal at several instants. *)
ParseInstants ==
    {StartInstant + d * 86400 + k * TickSeconds : d \in 0..MaxDays, k \in 0..MaxTicks}
ParseItems ==
    {"today", "yesterday", "tomorrow"}
        \cup {"this " \o days[i] : i \in DOMAIN days}
        \cup {"last " \o days[i] : i \in DOMAIN days}
InitParse ==
    InitWith(Vaults({"000_inbox/a.md"}, {}), ParseInstants, TzOffsets, {NoData}, MaxOps)
NextParse ==
    \/ appendToDailyNote(1)
    \/ \E item \in ParseItems : DateSuggestModal_onChooseSuggestion(1, item)
    \/ UserOpens
SpecParse == InitParse /\ [][NextParse]_vars

(* The daily-note workflows alone. *)
InitDaily ==
    InitWith(Vaults({"000_inbox/a.md"}, OtherCandidates), {StartInstant}, TzOffsets,
             PersistedData, DailyOps)
NextDaily ==
    \/ ImportSteps(1) \/ CheckSteps(2)
    \/ MoveCommands(1) \/ MoveSteps(1)
    \/ ToggleDailyNoteCheck(1) \/ saveSettings(1)
    \/ UserOpens \/ Sessions \/ Tick
SpecDaily == InitDaily /\ [][NextDaily]_vars

(* The settings tab and the file menu, with the commands that name notes by a
   timestamp. *)
MenuContents(path) ==
    IF path = "000_inbox/Sun 22 30 00.md" THEN "T"
    ELSE IF path = "000_inbox/2024-03-16.md" THEN "U"
    ELSE IF path = "000_inbox/sub/a.md" THEN "S"
    ELSE "D"
MenuVaults ==
    {[x \in {"000_inbox/Sun 22 30 00.md", "000_inbox/2024-03-16.md", "000_inbox/sub/a.md"}
                \cup ot |-> MenuContents(x)] : ot \in SUBSET OtherCandidates}
InitMenu == InitWith(MenuVaults, {StartInstant}, TzOffsets, {NoData}, MenuOps)
NextMenu ==
    \/ SettingsSteps(1)
    \/ MenuCommands(1) \/ MoveSteps(1)
    \/ InboxCommands(1) \/ InboxSteps(1)
    \/ UserOpens \/ Restart \/ Tick
SpecMenu == InitMenu /\ [][NextMenu]_vars

(* Two invocations of the move, interleaved at their awaits. *)
InitMove == InitWith(MoveVaults, {StartInstant}, {0}, {NoData}, MoveOps)
NextMove ==
    \/ \E p \in Procs :
        \/ appendToDailyNote(p)
        \/ DateSuggestModal_onChooseSuggestion(p, "today")
        \/ MoveSteps(p)
    \/ UserOpens
    \/ \E f \in DOMAIN vault \cup {NoFile} : OpenFileInFlight(f)
SpecMove == InitMove /\ [][NextMove]_vars

----------------------------------------------------------------------------
(* Properties. *)

\* sq lists each inbox note of v once, names ascending.
ListsInboxByName(sq, v, s) ==
    /\ {sq[i] : i \in DOMAIN sq} = {f \in DOMAIN v : isInInbox(f, s)}
    /\ \A i, j \in DOMAIN sq : i < j =>
           /\ sq[i] # sq[j]
           /\ LocaleCompare(FileName(sq[i]), FileName(sq[j])) <= 0

\* The 1-based position of f in sq, 0 when f is not in it.
PositionIn(sq, f) ==
    IF \E i \in DOMAIN sq : sq[i] = f THEN CHOOSE i \in DOMAIN sq : sq[i] = f ELSE 0

\* C1: whenever goToNextInboxNote opens a note, the inbox is not empty and the
\* note opened is the one at index (i + 1) mod count of the inbox notes sorted
\* ascending by name, i being the index of the active note in that list, or -1
\* when there is no active note or it is not in the inbox; after the last note
\* comes the first.
C1_NextAfter ==
    [][(/\ wf[1].kind = "next" /\ wf[1].pc = "open"
        /\ wf'[1].pc = "done" /\ wf'[1].outcome = "returned")
       => LET sorted == wf[1].files
              count  == Len(sorted)
              i      == IF active = NoFile \/ active \notin {sorted[k] : k \in DOMAIN sorted}
                        THEN -1 ELSE PositionIn(sorted, active) - 1
          IN  /\ count > 0
              /\ ListsInboxByName(sorted, vault, settings)
              /\ active' = sorted[((i + 1) % count) + 1]]_vars

\* C1 witness: a note outside the inbox (the daily note) was active when
\* goToNextInboxNote ran on three inbox notes, and the first of them is active
\* now.
C1_Witness ==
    /\ wf[1].kind = "next" /\ wf[1].pc = "done" /\ wf[1].outcome = "returned"
    /\ Len(wf[1].files) = 3
    /\ wf[1].prev \in OtherCandidates /\ ~isInInbox(wf[1].prev, settings)
    /\ active = wf[1].files[1]

\* The other cases of C1, each reached: the last of three inbox notes was
\* active and the first is now; no note was active and the first is now; a note
\* in the middle was active and its successor is now.
C1_WrapsAround ==
    /\ wf[1].kind = "next" /\ wf[1].pc = "done" /\ wf[1].outcome = "returned"
    /\ Len(wf[1].files) = 3
    /\ wf[1].prev = wf[1].files[3]
    /\ active = wf[1].files[1]

C1_NoActiveNote ==
    /\ wf[1].kind = "next" /\ wf[1].pc = "done" /\ wf[1].outcome = "returned"
    /\ Len(wf[1].files) = 3
    /\ wf[1].prev = NoFile
    /\ active = wf[1].files[1]

C1_Successor ==
    /\ wf[1].kind = "next" /\ wf[1].pc = "done" /\ wf[1].outcome = "returned"
    /\ Len(wf[1].files) = 3
    /\ wf[1].prev = wf[1].files[2]
    /\ active = wf[1].files[3]

\* The notes an invocation's list names.
Listed(w) == {w.files[i] : i \in DOMAIN w.files}

\* The step is a click of the merge button of the open modal: it shows a
\* notice or starts the merge.
MergeSubmitted ==
    /\ wf[1].kind = "merge" /\ wf[1].pc = "modal"
    /\ \/ wf'[1].pc = "read"
       \/ Len(wf'[1].notices) = Len(wf[1].notices) + 1

\* The causes of a rejection, for what was ticked and typed at the click.
TooFewSelected(w) == Cardinality(w.sel) < 2
EmptyTargetName(w) == Trim(w.arg) = ""
TargetExists(w, v) == (settings.inboxFolder \o "/" \o Trim(w.arg) \o ".md") \in DOMAIN v

TooFewNotices ==
    {"Please select at least one file to merge", "Please select at least 2 files to merge"}
EmptyNameNotice == "Please enter a filename for the merged file"
TargetExistsNotice == "A file with that name already exists. Please choose a different name."

\* C2: a merge submitted with fewer than 2 selected notes, with a target name
\* that is empty once trimmed, or with a note already at inboxFolder/<name>.md
\* is rejected: the click shows exactly one more notice, starts no merge and
\* leaves the vault as it is; the notice names a cause that holds, and the
\* three causes have different notices.
C2_MergeRejected ==
    [][LET w == wf'[1]
       IN  (MergeSubmitted
                /\ (TooFewSelected(w) \/ EmptyTargetName(w) \/ TargetExists(w, vault)))
           => /\ w.pc \in {"modal", "done"}
              /\ vault' = vault
              /\ Len(w.notices) = Len(wf[1].notices) + 1
              /\ SubSeq(w.notices, 1, Len(wf[1].notices)) = wf[1].notices
              /\ LET n == w.notices[Len(w.notices)]
                 IN  /\ n \in TooFewNotices \cup {EmptyNameNotice, TargetExistsNotice}
                     /\ n \in TooFewNotices => TooFewSelected(w)
                     /\ n = EmptyNameNotice => EmptyTargetName(w)
                     /\ n = TargetExistsNotice => TargetExists(w, vault)
              /\ EmptyNameNotice \notin TooFewNotices
              /\ TargetExistsNotice \notin TooFewNotices
              /\ EmptyNameNotice # TargetExistsNotice]_vars

\* C2 witness: a click without a name left the modal open; a second click,
\* with two notes ticked and the name of an existing note, was rejected too,
\* and the vault is as it was.
C2_Witness ==
    /\ wf[1].kind = "merge" /\ wf[1].pc = "done"
    /\ Cardinality(wf[1].sel) = 2
    /\ TargetExists(wf[1], vault)
    /\ wf[1].notices = <<EmptyNameNotice, TargetExistsNotice>>
    /\ vault = wf[1].vault0

\* The pieces that are not empty, joined by blank lines.
RECURSIVE JoinNonEmpty(_)
JoinNonEmpty(pieces) ==
    IF pieces = <<>> THEN ""
    ELSE LET rest == JoinNonEmpty(Tail(pieces))
         IN  IF Head(pieces) = "" THEN rest
             ELSE IF rest = "" THEN Head(pieces)
             ELSE Head(pieces) \o "\n\n" \o rest

\* The merge created its note and deleted every selected note.
MergeSucceeded(w) ==
    /\ w.kind = "merge"
    /\ \E i \in DOMAIN w.notices : w.notices[i] = "Successfully merged "

\* C3 (as claimed): after a merge of at least 2 notes in which no store
\* operation failed, the new note holds the selected notes' contents in
\* ascending name order with a blank line exactly between consecutive
\* non-empty pieces, and every selected note is deleted.
C3_MergeResult ==
    LET w == wf[1]
    IN  MergeSucceeded(w)
        => /\ Len(w.files) >= 2
           /\ \A i, j \in DOMAIN w.files : i < j =>
                  LocaleCompare(FileName(w.files[i]), FileName(w.files[j])) <= 0
           /\ w.target \in DOMAIN vault
           /\ vault[w.target] = JoinNonEmpty([i \in DOMAIN w.files |-> w.vault0[w.files[i]]])
           /\ \A f \in Listed(w) : f \notin DOMAIN vault

\* The merge created its note and then failed while deleting the selected notes.
MergeDeletionFailed(w) ==
    /\ w.kind = "merge" /\ w.pc = "done"
    /\ w.target # "" /\ w.target \in DOMAIN vault /\ w.target \notin DOMAIN w.vault0
    /\ ~MergeSucceeded(w)

\* C9 (as claimed): when a deletion fails after the merged note was created,
\* the deletion of every remaining selected note is still attempted (the loop
\* reaches the last note), the failure is reported, and the merged note stays.
C9_MergeBestEffort ==
    LET w == wf[1]
    IN  MergeDeletionFailed(w)
        => /\ w.idx = Len(w.files)
           /\ \E i \in DOMAIN w.notices : w.notices[i] = "Failed to merge files: "
           /\ w.target \in DOMAIN vault

\* The step starts markFileAsRead on an active note of the inbox.
MarkStarts ==
    /\ wf'[1] # wf[1] /\ wf'[1].kind = "mark" /\ ops' = ops - 1
    /\ active # NoFile /\ isInInbox(active, settings)

\* The step is the rename of markFileAsRead, and it succeeded.
MarkRenames ==
    /\ wf[1].kind = "mark" /\ wf[1].pc = "rename"
    /\ wf'[1].notices = <<"File marked as read">>

\* The name carries the marker twice.
Stacked(name) ==
    StartsWith(name, "(READ) (READ) ")

\* C4: markFileAsRead on an active inbox note whose name starts with "(READ) "
\* renames nothing and reports that the note is already marked; on any other
\* active inbox note it asks for, and a successful rename gives, the name
\* "(READ) " + name in the same folder, the note staying active; so marking a
\* marked note again leaves its name as it is, and no name ever carries the
\* marker twice.
C4_MarkIdempotent ==
    [][/\ (MarkStarts /\ StartsWith(FileName(active), "(READ) "))
            => /\ wf'[1].pc = "done"
               /\ wf'[1].notices = <<"File is already marked as read">>
               /\ vault' = vault /\ active' = active
       /\ (MarkStarts /\ ~StartsWith(FileName(active), "(READ) "))
            => /\ wf'[1].pc = "rename"
               /\ wf'[1].file = active
               /\ ParentPath(wf'[1].target) = ParentPath(active)
               /\ FileName(wf'[1].target) = "(READ) " \o FileName(active)
       /\ MarkRenames
            => /\ wf[1].file \in DOMAIN vault /\ wf[1].target \notin DOMAIN vault
               /\ DOMAIN vault' = (DOMAIN vault \ {wf[1].file}) \cup {wf[1].target}
               /\ vault'[wf[1].target] = vault[wf[1].file]
               /\ \A f \in DOMAIN vault \ {wf[1].file} : vault'[f] = vault[f]
               /\ active = wf[1].file => active' = wf[1].target
       /\ \A f \in DOMAIN vault' : ~Stacked(FileName(f))]_vars

\* C4 witness: b.md was marked, and a second markFileAsRead on it reported that
\* it is already marked.
C4_Witness ==
    /\ wf[1].kind = "mark"
    /\ wf[1].notices = <<"File is already marked as read">>
    /\ active = "000_inbox/(READ) b.md"
    /\ "000_inbox/b.md" \notin DOMAIN vault

\* The daily note the program takes for today's: the one named by the date of
\* new Date().toISOString().
TodaysDailyPath == settings.dailyNotesFolder \o "/" \o IsoDate(now) \o ".md"

\* Today's daily note does not exist, or holds nothing but blanks.
NothingToImport(v) == TodaysDailyPath \notin DOMAIN v \/ Trim(v[TodaysDailyPath]) = ""

\* The step belongs to an invocation of importDailyNote, started when the daily
\* note it took for today's did not exist or held nothing but blanks.
ImportActsOnNothing ==
    /\ wf'[1] # wf[1] /\ wf'[1].kind = "import"
    /\ (wf'[1].file \notin DOMAIN wf'[1].vault0
            \/ Trim(wf'[1].vault0[wf'[1].file]) = "")

\* The step starts an invocation of importDailyNote.
ImportStarts == wf'[1].kind = "import" /\ ops' = ops - 1

\* C5: when today's daily note does not exist or its trimmed content is empty,
\* no step of importDailyNote changes anything: no note is created, modified or
\* deleted, lastImportDate stays, in memory and persisted, and no notice is
\* shown; the invocation goes no further than its read of the daily note.
C5_ImportNothing ==
    [][/\ ImportStarts => (wf'[1].file = TodaysDailyPath /\ wf'[1].vault0 = vault)
       /\ ImportActsOnNothing
            => /\ vault' = vault /\ vault = wf'[1].vault0
               /\ settings' = settings /\ saved' = saved
               /\ wf'[1].notices = <<>>
               /\ wf'[1].pc \in {"read", "done"}]_vars

\* C5 witness: importDailyNote ran to its end on a daily note of blanks only.
C5_Witness ==
    /\ wf[1].kind = "import" /\ wf[1].pc = "done" /\ wf[1].outcome = "returned"
    /\ TodaysDailyPath \in DOMAIN vault /\ vault[TodaysDailyPath] = " \n"
    /\ wf[1].vault0 = vault
    /\ wf[1].notices = <<>>

\* The step ends this session's auto-check.
CheckEnds == wf'[2] # wf[2] /\ wf'[2].kind = "check" /\ wf'[2].pc = "done"

\* The date the check took for today's when it started.
CheckedDate(w) == IF w.file = NoFile THEN IsoDate(now) ELSE BaseName(w.file)

\* The daily note of the date has non-empty trimmed content and lastImportDate
\* is not that date.
PromptDue(date) ==
    /\ dailyPath(settings, date) \in DOMAIN vault
    /\ Trim(vault[dailyPath(settings, date)]) # ""
    /\ settings.lastImportDate # date

\* C6 (as claimed): the auto-check, when it completes, opens the import prompt
\* exactly when today's daily note has non-empty trimmed content and
\* lastImportDate is not today's date, today being the date when the check
\* started or the date when it completes (a check whose read fails opens
\* none); the check runs only when it is enabled; a prompt is opened by nothing
\* else; and cancelling a prompt changes no note and no setting, so that the
\* next session's check on the same date prompts again.
C6_AutoCheckPrompt ==
    [][/\ (CheckEnds /\ wf'[2].outcome = "returned")
            => \/ prompt' <=> PromptDue(CheckedDate(wf'[2]))
               \/ prompt' <=> PromptDue(IsoDate(now))
       /\ (CheckEnds /\ wf'[2].outcome # "returned") => ~prompt'
       /\ (~prompt /\ prompt') => CheckEnds
       /\ (wf'[2] # wf[2] /\ wf'[2].outcome = "running") => settings.enableDailyNoteCheck
       /\ (prompt /\ ~prompt' /\ wf' = wf /\ session' = session)
            => (vault' = vault /\ settings' = settings /\ saved' = saved)]_vars

\* C6 witness: a prompt was cancelled in an earlier session, and this session's
\* check, on the same date, has opened the prompt again.
C6_Witness ==
    /\ prompt
    /\ wf[2].kind = "check" /\ wf[2].pc = "done"
    /\ cancelled.session >= 1 /\ cancelled.session < session
    /\ cancelled.date = IsoDate(now)

\* The daily note's content before the move, "" when the note did not exist.
OldDaily(w) == IF w.target \in DOMAIN w.vault0 THEN w.vault0[w.target] ELSE ""

\* old + sep + noteContent, sep a blank line iff old has non-blank content.
ExpectedDaily(w) ==
    OldDaily(w) \o (IF Trim(OldDaily(w)) = "" THEN "" ELSE "\n\n") \o w.vault0[w.file]

\* moveInboxNoteToDailyNote runs, or ran, on a source note.
MoveRuns(w) == w.kind = "move" /\ w.file # NoFile /\ w.pc # "modal"

\* C8: a move that ends with no store operation having failed leaves the daily
\* note dailyNotesFolder/D.md with the content old + sep + noteContent (old its
\* content before the move, "" if it had to be created; sep "\n\n" iff
\* trim(old) is not empty) and the source note deleted, every other note as it
\* was; and in every state of a move in which the source note is gone, the
\* daily note already holds that content.
C8_MoveToDaily ==
    LET w == wf[1]
    IN  MoveRuns(w)
        => /\ w.target = settings.dailyNotesFolder \o "/" \o w.date \o ".md"
           /\ (w.pc = "done" /\ w.outcome = "returned"
                    /\ \A i \in DOMAIN w.notices : w.notices[i] # "Failed to move note: ")
                => /\ w.notices = <<"Moved inbox note to ">>
                   /\ w.file \notin DOMAIN vault
           /\ w.file \notin DOMAIN vault
                => /\ DOMAIN vault = (DOMAIN w.vault0 \ {w.file}) \cup {w.target}
                   /\ vault[w.target] = ExpectedDaily(w)
                   /\ \A f \in DOMAIN vault \ {w.target} : vault[f] = w.vault0[f]

\* C8 witness: a note was moved to a daily note that had content, after a blank line.
C8_Witness ==
    /\ MoveRuns(wf[1]) /\ wf[1].notices = <<"Moved inbox note to ">>
    /\ OldDaily(wf[1]) = "D"
    /\ vault[wf[1].target] = "D\n\nA"
    /\ wf[1].file \notin DOMAIN vault

\* The weekday a phrase names, 0 = sunday .. 6 = saturday.
NamedWeekday(item) ==
    CHOOSE k \in 0..6 : SubSeq(item, 6, Len(item)) = days[k + 1]

\* The day number of a calendar date YYYY-MM-DD within two weeks of an instant;
\* -1 when the text is no such date.
DayNumber(date, t) ==
    LET near == (UtcDay(t) - 14)..(UtcDay(t) + 14)
    IN  IF \E d \in near : CivilDate(d) = date
        THEN CHOOSE d \in near : CivilDate(d) = date
        ELSE -1

\* C7 (as claimed): "this <w>" gives a calendar date whose weekday is w, 0 to 6
\* days after today; "last <w>" gives one whose weekday is w, 1 to 7 days
\* before today; today is the current date where the user is.
C7_WeekdayPhrases ==
    LET w     == wf[1]
        today == LocalDay(now, tz)
        day   == DayNumber(w.date, now)
    IN  /\ (MoveRuns(w) /\ StartsWith(w.arg, "this "))
            => /\ day # -1
               /\ WeekdayOf(day) = NamedWeekday(w.arg)
               /\ day - today \in 0..6
        /\ (MoveRuns(w) /\ StartsWith(w.arg, "last "))
            => /\ day # -1
               /\ WeekdayOf(day) = NamedWeekday(w.arg)
               /\ today - day \in 1..7

\* The workflows the user starts.
UserWorkflows == {"next", "mark", "snooze", "create", "import", "move", "merge"}

\* C10 (as claimed): no user-started workflow ends with a fault of the store or
\* the workspace left unhandled.
C10_NoUnhandledFault ==
    \A p \in Procs : wf[p].kind \in UserWorkflows => wf[p].outcome # "unhandled"


----------------------------------------------------------------------------
(* Interleaved moves. *)

\* The invocation reported success: its only notice is the one of the move.
MoveReportedSuccess(w) ==
    MoveRuns(w) /\ w.pc = "done" /\ w.notices = <<"Moved inbox note to ">>

\* Two invocations on two different inbox notes and the same daily note, both
\* reporting success, both source notes deleted.
BothMoved(v, ws) ==
    /\ MoveReportedSuccess(ws[1]) /\ MoveReportedSuccess(ws[2])
    /\ ws[1].file # ws[2].file
    /\ ws[1].target = ws[2].target
    /\ ws[1].file \notin DOMAIN v /\ ws[2].file \notin DOMAIN v
    /\ ws[1].target \in DOMAIN v

\* What one invocation writes: what it read, a blank line if that had
\* non-blank content, its note's content.
WrittenBy(w) ==
    w.existing \o (IF Trim(w.existing) = "" THEN "" ELSE "\n\n") \o w.buf

\* Both invocations are about to create the same daily note: each looked it up
\* before the other created it.
BothCreate(ws) ==
    /\ ws[1].kind = "move" /\ ws[1].pc = "create"
    /\ ws[2].kind = "move" /\ ws[2].pc = "create"
    /\ ws[1].target = ws[2].target

\* The invocation attempts to create a daily note that is there by now.
RedundantCreate(v, w) ==
    w.kind = "move" /\ w.pc = "create" /\ w.target \in DOMAIN v

\* C11: nothing orders two interleaved moves. After two invocations on two
\* different inbox notes and the same daily note that both report success and
\* delete their sources, the daily note holds what the last writer wrote (what
\* it had read + separator + its own note); when both had read the same
\* content, that is the old content plus ONE of the two notes, the other
\* note's content is lost with its source deleted (the daily note is shorter
\* than old content + both notes + a blank line). And an invocation that
\* attempts to create a daily note another invocation created meanwhile is
\* not held back: the attempt is made, fails in the store, and the invocation
\* reports the failure, leaving the vault as it is.
C11_Step ==
    /\ BothMoved(vault', wf')
        => /\ \E i \in Procs : vault'[wf'[1].target] = WrittenBy(wf'[i])
           /\ (wf'[1].existing = wf'[2].existing /\ wf'[1].buf # "" /\ wf'[2].buf # "")
                => /\ vault'[wf'[1].target]
                        \in {wf'[1].existing \o s \o wf'[i].buf :
                                s \in {"", "\n\n"}, i \in Procs}
                   /\ Len(vault'[wf'[1].target])
                        < Len(wf'[1].existing) + Len(wf'[1].buf) + Len(wf'[2].buf) + 2
    /\ \A p \in Procs :
        (RedundantCreate(vault, wf[p]) /\ wf'[p] # wf[p])
            => /\ wf'[p].pc = "done"
               /\ wf'[p].notices = <<"Failed to move note: ">>
               /\ vault' = vault
C11_InterleavedMoves == [][C11_Step]_vars

\* C11 witness: a.md ("A") and b.md ("B") were both moved to a daily note that
\* held "D", both invocations reported success, both sources are deleted, and
\* the daily note is "D\n\nB": the content of a.md is nowhere in the vault.
C11_Witness ==
    /\ BothMoved(vault, wf)
    /\ wf[1].buf = "A" /\ wf[2].buf = "B"
    /\ wf[1].existing = "D" /\ wf[2].existing = "D"
    /\ vault[wf[1].target] = "D\n\nB"
    /\ \A f \in DOMAIN vault : vault[f] # "D\n\nA" /\ vault[f] # "A"

\* Both invocations stand before vault.create of the same absent daily note.
C11_BothAttemptCreation ==
    BothCreate(wf) /\ wf[1].file # wf[2].file /\ wf[1].target \notin DOMAIN vault

=============================================================================
